---- MODULE Spec2Model ----
(***************************************************************************)
(* Model of the ecosystem puzzle solver: the Species value objects, the    *)
(* FeedingSimulation of ecosystem.py and SolutionValidator.validate_       *)
(* solution of validator.py, as run by main.py (the top-level modules).    *)
(*                                                                         *)
(* Calories are Python numbers: an even split of calories_needed over a    *)
(* group of tied prey is a true division.  The ledger and the event log    *)
(* therefore hold calories in units of 1/Scale calorie, Scale being the    *)
(* least common multiple of the possible group sizes 1..MAX_PREY, so that  *)
(* every split is exact.  Species fields stay in whole calories.           *)
(***************************************************************************)
EXTENDS Integers, Sequences, FiniteSets, TLC

VARIABLES solution, pc, caller, errors, is_valid, stages, sim_calls, sim, gen, eco, search,
          rank, scoring

vars ==
    <<solution, pc, caller, errors, is_valid, stages, sim_calls, sim, gen, eco, search,
      rank, scoring>>

-----------------------------------------------------------------------------
(* Program constants *)

TOTAL_PRODUCERS_NEEDED == 3
TOTAL_ANIMALS_NEEDED == 5
MIN_CALORIES == 1000
MAX_CALORIES == 6000
MAX_PREDATORS == 4
MAX_PREY == 4

PRODUCER == "producer"
ANIMAL == "animal"
None == "None"

(* Bounds of the model *)

\* simulations run side by side on the same candidate
NumRuns == 2
\* producers of the 8-species candidates provide 1050 or 1000*k, k in 1..MaxProducerLevel
MaxProducerLevel == 2
\* their two free animals need 1000*k, k in 1..MaxNeedLevel
MaxNeedLevel == 2
\* the animals of the 3-species chain provide 0, 500 or 1000*k, k in 1..MaxChainLevel
MaxChainLevel == 2

Runs == 1..NumRuns

-----------------------------------------------------------------------------
(* Arithmetic and sequence helpers *)

RECURSIVE Gcd(_, _)
Gcd(a, b) ==
    IF b = 0 THEN a ELSE Gcd(b, a % b)

RECURSIVE LcmUpTo(_)
LcmUpTo(n) ==
    IF n <= 1 THEN 1
    ELSE LET l == LcmUpTo(n - 1) IN (l * n) \div Gcd(l, n)

\* ledger units per calorie
Scale == LcmUpTo(MAX_PREY)

Range(s) == {s[i] : i \in DOMAIN s}

Max(S) == CHOOSE x \in S : \A y \in S : y <= x

Take(s, n) == SubSeq(s, 1, IF Len(s) < n THEN Len(s) ELSE n)

RECURSIVE SumSeq(_)
SumSeq(s) ==
    IF s = <<>> THEN 0 ELSE Head(s) + SumSeq(Tail(s))

\* a Python list comprehension [f for x in s if c] is SelectSeq; a conditional append:
When(c, e) == IF c THEN <<e>> ELSE <<>>

RECURSIVE Concat(_)
Concat(ss) ==
    IF ss = <<>> THEN <<>> ELSE Head(ss) \o Concat(Tail(ss))

-----------------------------------------------------------------------------
(* species.py: the Species dataclass *)

\* Species.__init__ + __post_init__ (name is the id)
Species(id, species_type, calories_provided, calories_needed, bin, predators, prey) ==
    [id |-> id,
     species_type |-> species_type,
     calories_provided |-> calories_provided,
     calories_needed |-> IF species_type = PRODUCER THEN 0 ELSE calories_needed,
     bin |-> bin,
     predators |-> Take(predators, MAX_PREDATORS),
     prey |-> IF species_type = PRODUCER THEN <<>> ELSE Take(prey, MAX_PREY)]

Ids(species) == {species[i].id : i \in DOMAIN species}

\* {s.id: s for s in species}[id]: the last entry with that id wins
species_dict(species, id) ==
    species[Max({i \in DOMAIN species : species[i].id = id})]

-----------------------------------------------------------------------------
(* ecosystem.py: FeedingSimulation.  `self` is the simulation object; its  *)
(* species list is the candidate `solution` it was constructed on.  seed   *)
(* is the hash seed of the interpreter the run executes in: the code never *)
(* reads it.                                                               *)

NoSimulation ==
    [seed |-> 0, calories_remaining |-> <<>>, has_eaten |-> {},
     feeding_history |-> <<>>, pc |-> "none", success |-> FALSE]

\* variant: the ledger is not allocated anew but left as the run before left it
FeedingSimulationOnOldLedger(species, seed) ==
    [seed |-> seed,
     calories_remaining |->
         [id \in Ids(species) |->
             IF sim[seed].pc = "returned" /\ id \in DOMAIN sim[seed].calories_remaining
             THEN sim[seed].calories_remaining[id]
             ELSE species_dict(species, id).calories_provided * Scale],
     has_eaten |-> {},
     feeding_history |-> <<>>,
     pc |-> "loop",
     success |-> FALSE]

\* FeedingSimulation.__init__
FeedingSimulation(species, seed) ==
    [seed |-> seed,
     calories_remaining |->
         [id \in Ids(species) |-> species_dict(species, id).calories_provided * Scale],
     has_eaten |-> {},
     feeding_history |-> <<>>,
     pc |-> "loop",
     success |-> FALSE]

\* variant: the last element whose key is maximal
LastMax(seq, rem) ==
    seq[CHOOSE i \in DOMAIN seq :
            \A j \in DOMAIN seq :
                /\ rem[seq[j].id] <= rem[seq[i].id]
                /\ (j > i => rem[seq[j].id] < rem[seq[i].id])]

\* max(seq, key=rem): the first element whose key is maximal
FirstMax(seq, rem) ==
    seq[CHOOSE i \in DOMAIN seq :
            \A j \in DOMAIN seq :
                /\ rem[seq[j].id] <= rem[seq[i].id]
                /\ (j < i => rem[seq[j].id] < rem[seq[i].id])]

\* variant: the candidates are iterated in hash order, so a tie is broken by the
\* interpreter's hash seed
get_next_predator_by_hash(self) ==
    LET available_predators ==
            SelectSeq(solution, LAMBDA s : s.species_type = ANIMAL
                                           /\ s.id \notin self.has_eaten)
    IN  IF available_predators = <<>> THEN None
        ELSE IF self.seed % 2 = 0
             THEN LastMax(available_predators, self.calories_remaining).id
             ELSE FirstMax(available_predators, self.calories_remaining).id

\* variant: the first animal of the list that has not eaten, whatever its calories
get_next_predator_in_list_order(self) ==
    LET available_predators ==
            SelectSeq(solution, LAMBDA s : s.species_type = ANIMAL
                                           /\ s.id \notin self.has_eaten)
    IN  IF available_predators = <<>> THEN None
        ELSE available_predators[1].id

\* FeedingSimulation._get_next_predator: the id of the next species to feed, or None
get_next_predator(self) ==
    LET available_predators ==
            SelectSeq(solution, LAMBDA s : s.species_type = ANIMAL
                                           /\ s.id \notin self.has_eaten)
    IN  IF available_predators = <<>> THEN None
        ELSE FirstMax(available_predators, self.calories_remaining).id

\* sorted(..., key=rem, reverse=True): stable, so equal keys keep their order
RECURSIVE InsertDesc(_, _, _)
InsertDesc(sorted, x, rem) ==
    IF sorted = <<>> THEN <<x>>
    ELSE IF rem[Head(sorted).id] >= rem[x.id]
         THEN <<Head(sorted)>> \o InsertDesc(Tail(sorted), x, rem)
         ELSE <<x>> \o sorted

RECURSIVE SortedDesc(_, _)
SortedDesc(seq, rem) ==
    IF seq = <<>> THEN <<>>
    ELSE InsertDesc(SortedDesc(SubSeq(seq, 1, Len(seq) - 1), rem), seq[Len(seq)], rem)

\* FeedingSimulation._get_available_prey
get_available_prey(self, species) ==
    LET available ==
            SelectSeq(solution, LAMBDA s : s.id \in Range(species.prey)
                                           /\ self.calories_remaining[s.id] > 0)
    IN  SortedDesc(available, self.calories_remaining)

\* variant: the calories drawn from the prey are credited to the predator's entry
DrawCreditingPredator(self, predator, p, amount) ==
    [self EXCEPT !.calories_remaining[p.id] = @ - amount,
                 !.calories_remaining[predator.id] = @ + amount,
                 !.feeding_history = Append(@, [predator |-> predator.id,
                                                prey |-> p.id,
                                                calories_consumed |-> amount])]

\* one draw: the ledger entry is lowered and one event is appended
Draw(self, predator, p, amount) ==
    [self EXCEPT !.calories_remaining[p.id] = @ - amount,
                 !.feeding_history = Append(@, [predator |-> predator.id,
                                                prey |-> p.id,
                                                calories_consumed |-> amount])]

\* variant: a tied prey the draw would deplete is skipped instead of failing the feed
RECURSIVE DistributeEvenlySkipping(_, _, _, _)
DistributeEvenlySkipping(self, predator, group, calories_per_prey) ==
    IF group = <<>> THEN [ok |-> TRUE, self |-> self]
    ELSE LET p == Head(group)
             new_calories == self.calories_remaining[p.id] - calories_per_prey
         IN  IF new_calories <= 0
             THEN DistributeEvenlySkipping(self, predator, Tail(group), calories_per_prey)
             ELSE DistributeEvenlySkipping(Draw(self, predator, p, calories_per_prey),
                                           predator, Tail(group), calories_per_prey)

\* _distribute_feeding, the loop over the tied group (lines 136-154): stops at the
\* first prey the draw would deplete, keeping the draws made before it
RECURSIVE DistributeEvenly(_, _, _, _)
DistributeEvenly(self, predator, group, calories_per_prey) ==
    IF group = <<>> THEN [ok |-> TRUE, self |-> self]
    ELSE LET p == Head(group)
             new_calories == self.calories_remaining[p.id] - calories_per_prey
         IN  IF new_calories <= 0 THEN [ok |-> FALSE, self |-> self]
             ELSE DistributeEvenly(Draw(self, predator, p, calories_per_prey),
                                   predator, Tail(group), calories_per_prey)

\* variant: the single-prey draw is made and logged before it is found to deplete
TakeSingleKeepingDraw(self, predator, p, calories_needed) ==
    LET new_calories == self.calories_remaining[p.id] - calories_needed * Scale
    IN  [ok |-> new_calories > 0, self |-> Draw(self, predator, p, calories_needed * Scale)]

\* variant: the single-prey draw is rejected only below 0
TakeSingleToZero(self, predator, p, calories_needed) ==
    LET new_calories == self.calories_remaining[p.id] - calories_needed * Scale
    IN  IF new_calories < 0 THEN [ok |-> FALSE, self |-> self]
        ELSE [ok |-> TRUE, self |-> Draw(self, predator, p, calories_needed * Scale)]

\* _distribute_feeding, the single-prey branch (lines 156-169)
TakeSingle(self, predator, p, calories_needed) ==
    LET new_calories == self.calories_remaining[p.id] - calories_needed * Scale
    IN  IF new_calories <= 0 THEN [ok |-> FALSE, self |-> self]
        ELSE [ok |-> TRUE, self |-> Draw(self, predator, p, calories_needed * Scale)]

\* FeedingSimulation._distribute_feeding
distribute_feeding(self, predator, prey, calories_needed) ==
    IF prey = <<>> THEN [ok |-> FALSE, self |-> self]
    ELSE LET max_calories ==
                 Max({self.calories_remaining[prey[i].id] : i \in DOMAIN prey})
             max_calorie_prey ==
                 SelectSeq(prey, LAMBDA p : self.calories_remaining[p.id] = max_calories)
         IN  IF Len(max_calorie_prey) > 1
             THEN DistributeEvenly(self, predator, max_calorie_prey,
                                   (calories_needed * Scale) \div Len(max_calorie_prey))
             ELSE TakeSingle(self, predator, max_calorie_prey[1], calories_needed)

\* variant: the species that fed is not recorded as having eaten
feed_species_unrecorded(self, species) ==
    IF species.id \in self.has_eaten THEN [ok |-> TRUE, self |-> self]
    ELSE LET available_prey == get_available_prey(self, species)
         IN  IF available_prey = <<>> THEN [ok |-> FALSE, self |-> self]
             ELSE distribute_feeding(self, species, available_prey, species.calories_needed)

\* FeedingSimulation._feed_species
feed_species(self, species) ==
    IF species.id \in self.has_eaten THEN [ok |-> TRUE, self |-> self]
    ELSE LET available_prey == get_available_prey(self, species)
         IN  IF available_prey = <<>> THEN [ok |-> FALSE, self |-> self]
             ELSE LET d == distribute_feeding(self, species, available_prey,
                                              species.calories_needed)
                  IN  IF ~d.ok THEN d
                      ELSE [ok |-> TRUE,
                            self |-> [d.self EXCEPT !.has_eaten = @ \cup {species.id}]]

\* variant: the depletion check lets a ledger value of exactly 0 pass
AnyDepletedBelowZero(self) ==
    \E i \in DOMAIN solution : self.calories_remaining[solution[i].id] < 0

\* the depletion check of simulate_feeding_round (lines 53-57 and 67-71)
AnyDepleted(self) ==
    \E i \in DOMAIN solution : self.calories_remaining[solution[i].id] <= 0

Return(self, success) ==
    [self EXCEPT !.pc = "returned", !.success = success]

\* simulate_feeding_round, one pass of `while True` that feeds next_predator (lines 35-57)
FeedPass(self) ==
    LET next_predator == species_dict(solution, get_next_predator(self))
        fed == feed_species(self, next_predator)
    IN  IF ~fed.ok THEN Return(fed.self, FALSE)
        ELSE IF AnyDepleted(fed.self) THEN Return(fed.self, FALSE)
        ELSE fed.self

\* simulate_feeding_round, the pass that breaks out of the loop and the checks after
\* it (lines 35-37 and 59-79)
FinalChecks(self) ==
    IF \E i \in DOMAIN solution :
           /\ solution[i].species_type = ANIMAL
           /\ solution[i].id \notin self.has_eaten
    THEN Return(self, FALSE)
    ELSE IF AnyDepleted(self) THEN Return(self, FALSE)
    ELSE Return(self, TRUE)

-----------------------------------------------------------------------------
(* validator.py: SolutionValidator.  An error is modelled by its kind (the *)
(* message template) and the species its text names.                       *)

Error(kind, species) == [kind |-> kind, species |-> species]

\* ERROR_MESSAGES['invalid_producer_count'], ['invalid_animal_count'], ['invalid_bin']
InvalidProducerCount == Error("invalid_producer_count", None)
InvalidAnimalCount == Error("invalid_animal_count", None)
InvalidBin == Error("invalid_bin", None)

producers_of(species) == SelectSeq(species, LAMBDA s : s.species_type = PRODUCER)
animals_of(species) == SelectSeq(species, LAMBDA s : s.species_type = ANIMAL)

\* variant: only the animal count is checked
count_errors_animals_only(species) ==
    When(Len(animals_of(species)) # TOTAL_ANIMALS_NEEDED, InvalidAnimalCount)

\* validate_solution, the count check (lines 27-41)
count_errors(species) ==
    When(Len(producers_of(species)) # TOTAL_PRODUCERS_NEEDED, InvalidProducerCount)
    \o When(Len(animals_of(species)) # TOTAL_ANIMALS_NEEDED, InvalidAnimalCount)

\* validate_solution, the bin check (lines 51-52)
unique_bins(species) == {species[i].bin : i \in DOMAIN species}

\* variant: two bins are tolerated
more_than_two_bins(species) == Cardinality(unique_bins(species)) > 2

multiple_bins(species) == Cardinality(unique_bins(species)) > 1

\* _validate_solution_structure, the body of the loop for one species (lines 109-152)
structure_errors_of(species, s) ==
    LET solution_ids == Ids(species)
        in_dict == SelectSeq(s.prey, LAMBDA prey_id : prey_id \in solution_ids)
        available_calories ==
            SumSeq([k \in DOMAIN in_dict |->
                        species_dict(species, in_dict[k]).calories_provided])
        unlisted ==
            SelectSeq(in_dict,
                      LAMBDA prey_id : s.id \notin Range(species_dict(species, prey_id).predators))
    IN  (IF s.species_type = PRODUCER
         THEN When(s.prey # <<>>, Error("producer_has_prey", s.id))
              \o When(s.calories_needed # 0, Error("producer_needs_calories", s.id))
              \o When(s.predators = <<>>, Error("producer_no_predators", s.id))
         ELSE When(s.prey = <<>>, Error("animal_no_prey", s.id))
              \o When(Range(s.prey) \ solution_ids # {}, Error("invalid_prey", s.id))
              \o When(available_calories < s.calories_needed,
                      Error("not_enough_available", s.id)))
        \o [k \in DOMAIN unlisted |-> Error("inconsistent_relationship", s.id)]
        \o When(Range(s.predators) \ solution_ids # {}, Error("invalid_predators", s.id))

\* SolutionValidator._validate_solution_structure
validate_solution_structure(species) ==
    Concat([i \in DOMAIN species |-> structure_errors_of(species, species[i])])

\* variant: an animal that did not eat is not reported
diagnostics_of_depleted_only(simulation, s) ==
    LET remaining_calories == simulation.calories_remaining[s.id]
    IN  When(remaining_calories <= MIN_CALORIES * Scale, Error("depleted", s.id))

\* validate_solution, the diagnostics of a failed simulation for one species (lines 77-85)
diagnostics_of(simulation, s) ==
    LET remaining_calories == simulation.calories_remaining[s.id]
    IN  IF remaining_calories <= MIN_CALORIES * Scale
        THEN <<Error("depleted", s.id)>>
        ELSE When(s.species_type = ANIMAL /\ s.id \notin simulation.has_eaten,
                  Error("could_not_obtain", s.id))

\* validate_solution, lines 71-89
diagnostics(species, simulation) ==
    IF simulation.success THEN <<>>
    ELSE Concat([i \in DOMAIN species |-> diagnostics_of(simulation, species[i])])

-----------------------------------------------------------------------------
(* The candidates the program is run on.  Relationships are wired on both  *)
(* sides, as Species.add_prey with Species.add_predator do, and then one   *)
(* defect at most is applied, as a caller of validate_solution may pass    *)
(* any list of Species.                                                    *)

IdSeq(species) == [k \in DOMAIN species |-> species[k].id]

\* every species gets as predators the species that list it as prey
Linked(raw) ==
    [i \in DOMAIN raw |->
        Species(raw[i].id, raw[i].species_type, raw[i].calories_provided,
                raw[i].calories_needed, raw[i].bin,
                IdSeq(SelectSeq(raw, LAMBDA s : raw[i].id \in Range(s.prey))),
                raw[i].prey)]

Without(seq, x) == SelectSeq(seq, LAMBDA y : y # x)

Remove(seq, i) == SubSeq(seq, 1, i - 1) \o SubSeq(seq, i + 1, Len(seq))

\* producer P, herbivore H eating P, carnivore C eating H
Chain(pp, hp, hn, cp, cn, cbin) ==
    Linked(<<Species("P", PRODUCER, pp, 0, "A", <<>>, <<>>),
             Species("H", ANIMAL, hp, hn, "A", <<>>, <<"P">>),
             Species("C", ANIMAL, cp, cn, cbin, <<>>, <<"H">>)>>)

ChainCalories == {0, 500} \cup {1000 * k : k \in 1..MaxChainLevel}

\* the scenario of the specification: H needs 1000, C needs 500, P provides 1000 or 1050
ScenarioChains ==
    {Chain(pp, hp, 1000, cp, 500, "A") :
        pp \in {1000, 1050}, hp \in ChainCalories, cp \in ChainCalories}

\* the fixture of tests/test_validator.py and the changes its tests make to it
FixtureChains ==
    {Chain(100, 50, hn, 80, 40, cbin) : hn \in {30, 150}, cbin \in {"A", "B"}}

ProducerCalories == {1050} \cup {1000 * k : k \in 1..MaxProducerLevel}

Needs == {1000 * k : k \in 1..MaxNeedLevel}

PreyChoicesA1 == {<<"P1", "P2">>, <<"A2", "A3">>, <<"A2", "A3", "A4">>, <<"A1">>}

PreyChoicesA4 == {<<"P3">>, <<"A5">>, <<"A1">>}

\* three producers and five animals of one bin, producers first as
\* _create_solution_subset lists them
Roster(p1, p2, n1, x1, n4, x4) ==
    Linked(<<Species("P1", PRODUCER, p1, 0, "A", <<>>, <<>>),
             Species("P2", PRODUCER, p2, 0, "A", <<>>, <<>>),
             Species("P3", PRODUCER, 6000, 0, "A", <<>>, <<>>),
             Species("A1", ANIMAL, 5000, n1, "A", <<>>, x1),
             Species("A2", ANIMAL, 3000, 1000, "A", <<>>, <<"P1", "P2">>),
             Species("A3", ANIMAL, 3000, 1000, "A", <<>>, <<"P3">>),
             Species("A4", ANIMAL, 3000, n4, "A", <<>>, x4),
             Species("A5", ANIMAL, 1500, 1000, "A", <<>>, <<"P2", "P3">>)>>)

Defects ==
    {"none", "two_bins", "missing_predator_link", "extra_predator_link", "dangling_prey",
     "no_prey", "drop_producer", "drop_animal", "drop_both"}

Defective(c, d) ==
    CASE d = "none" -> c
      [] d = "two_bins" -> [c EXCEPT ![8].bin = "B"]
      [] d = "missing_predator_link" -> [c EXCEPT ![3].predators = Without(@, "A3")]
      [] d = "extra_predator_link" -> [c EXCEPT ![3].predators = Append(@, "A2")]
      [] d = "dangling_prey" -> [c EXCEPT ![8].prey = Append(@, "A9")]
      [] d = "no_prey" -> [c EXCEPT ![6].prey = <<>>, ![3].predators = Without(@, "A3")]
      [] d = "drop_producer" -> Remove(c, 3)
      [] d = "drop_animal" -> Remove(c, 8)
      [] d = "drop_both" -> Remove(Remove(c, 8), 3)

Rosters ==
    {Defective(Roster(p1, p2, n1, x1, n4, x4), d) :
        p1 \in ProducerCalories, p2 \in ProducerCalories, n1 \in Needs,
        x1 \in PreyChoicesA1, n4 \in Needs, x4 \in PreyChoicesA4, d \in Defects}

Candidates == ScenarioChains \cup FixtureChains \cup Rosters

-----------------------------------------------------------------------------
(* The program: validate_solution(ecosystem, solution), or a simulation    *)
(* constructed directly on the candidate as rank_solutions and main.py do. *)
(* Run 1 is the caller's simulation; the other runs are the same           *)
(* simulation on the same candidate in another interpreter, stepped        *)
(* together with it.                                                       *)

\* no solution search is under way
NoSearch ==
    [pc |-> "none", ecosystem |-> <<>>, ranked_bins |-> <<>>, b |-> 0,
     producers |-> <<>>, combos |-> <<>>, evaluated |-> <<>>, verdicts |-> <<>>,
     bin_solutions |-> <<>>, solutions |-> <<>>, accepted |-> <<>>,
     attempted |-> <<>>, expired |-> FALSE, raised |-> None]

Init ==
    /\ solution \in Candidates
    /\ pc = "start"
    /\ caller = None
    /\ errors = <<>>
    /\ is_valid = FALSE
    /\ stages = <<>>
    /\ sim_calls = 0
    /\ sim = [r \in Runs |-> NoSimulation]
    /\ gen = None
    /\ eco = None
    /\ search = NoSearch
    /\ rank = None
    /\ scoring = None

\* validate_solution, lines 21-48
CountCheck ==
    /\ pc = "start"
    /\ caller' = "validate_solution"
    /\ stages' = Append(stages, "count")
    /\ errors' = count_errors(solution)
    /\ pc' = IF errors' # <<>> THEN "done" ELSE "bin"
    /\ is_valid' = FALSE
    /\ UNCHANGED <<solution, sim_calls, sim, gen, eco, search, rank, scoring>>

\* validate_solution, lines 50-56
BinCheck ==
    /\ pc = "bin"
    /\ stages' = Append(stages, "bin")
    /\ errors' = errors \o When(multiple_bins(solution), InvalidBin)
    /\ pc' = IF errors' # <<>> THEN "done" ELSE "structure"
    /\ is_valid' = FALSE
    /\ UNCHANGED <<solution, caller, sim_calls, sim, gen, eco, search, rank, scoring>>

\* validate_solution, lines 58-62
StructureCheck ==
    /\ pc = "structure"
    /\ stages' = Append(stages, "structure")
    /\ errors' = errors \o validate_solution_structure(solution)
    /\ pc' = IF errors' # <<>> THEN "done" ELSE "simulate"
    /\ is_valid' = FALSE
    /\ UNCHANGED <<solution, caller, sim_calls, sim, gen, eco, search, rank, scoring>>

\* FeedingSimulation(solution): validator.py line 68, generator.py line 255,
\* main.py line 234
StartSimulation ==
    /\ pc \in {"start", "simulate"}
    /\ pc = "start" => search.pc = "none"
    /\ caller' = IF pc = "start" THEN "rank_solutions" ELSE caller
    /\ stages' = Append(stages, "simulation")
    /\ sim_calls' = sim_calls + 1
    /\ sim' = [r \in Runs |-> FeedingSimulation(solution, r)]
    /\ pc' = "simulating"
    /\ UNCHANGED <<solution, errors, is_valid, gen, eco, search, rank, scoring>>

Feeds(r) == sim[r].pc = "loop" /\ get_next_predator(sim[r]) # None

Breaks(r) == sim[r].pc = "loop" /\ get_next_predator(sim[r]) = None

Returned == \A r \in Runs : sim[r].pc = "returned"

\* simulate_feeding_round: a pass of the loop that feeds the next predator
FeedingPass ==
    /\ pc = "simulating"
    /\ \E r \in Runs : Feeds(r)
    /\ sim' = [r \in Runs |-> IF Feeds(r) THEN FeedPass(sim[r]) ELSE sim[r]]
    /\ UNCHANGED <<solution, pc, caller, errors, is_valid, stages, sim_calls, gen, eco, search, rank, scoring>>

\* simulate_feeding_round: the pass that finds no next predator, and the return
LoopExit ==
    /\ pc = "simulating"
    /\ \E r \in Runs : Breaks(r)
    /\ sim' = [r \in Runs |-> IF Breaks(r) THEN FinalChecks(sim[r]) ELSE sim[r]]
    /\ UNCHANGED <<solution, pc, caller, errors, is_valid, stages, sim_calls, gen, eco, search, rank, scoring>>

\* validate_solution, lines 69-100: the simulation has returned
CollectDiagnostics ==
    /\ pc = "simulating"
    /\ caller = "validate_solution"
    /\ Returned
    /\ errors' = errors \o diagnostics(solution, sim[1])
    /\ is_valid' = (errors' = <<>>)
    /\ pc' = "done"
    /\ UNCHANGED <<solution, caller, stages, sim_calls, sim, gen, eco, search, rank, scoring>>

Next ==
    \/ CountCheck
    \/ BinCheck
    \/ StructureCheck
    \/ StartSimulation
    \/ FeedingPass
    \/ LoopExit
    \/ CollectDiagnostics

Spec == Init /\ [][Next]_vars

\* the scenario's three species with the prey lists of H and C chosen freely
Ring(pp, hp, cp, xh, xc) ==
    Linked(<<Species("P", PRODUCER, pp, 0, "A", <<>>, <<>>),
             Species("H", ANIMAL, hp, 1000, "A", <<>>, xh),
             Species("C", ANIMAL, cp, 500, "A", <<>>, xc)>>)

PreyChoicesH == {<<"P">>, <<"P", "C">>, <<"C">>, <<"H">>}

PreyChoicesC == {<<"H">>, <<"P", "H">>, <<"C">>}

\* the candidates a simulation is run on to its return: three species with any
\* calories, 0 included, whose animals may list themselves or each other as
\* prey, and rosters in which A1 and A4 may be each other's prey
SimulatedCandidates ==
    {Ring(pp, hp, cp, xh, xc) :
        pp \in {1000, 1050}, hp \in ChainCalories, cp \in ChainCalories,
        xh \in PreyChoicesH, xc \in PreyChoicesC}
    \cup {Roster(2000, 2000, 1000, <<"A2", "A3", "A4">>, 1000, x4) :
              x4 \in {<<"P3">>, <<"A1">>}}

SimulationInit ==
    /\ solution \in SimulatedCandidates
    /\ pc = "start"
    /\ caller = None
    /\ errors = <<>>
    /\ is_valid = FALSE
    /\ stages = <<>>
    /\ sim_calls = 0
    /\ sim = [r \in Runs |-> NoSimulation]
    /\ gen = None
    /\ eco = None
    /\ search = NoSearch
    /\ rank = None
    /\ scoring = None

SimulationNext ==
    \/ StartSimulation
    \/ FeedingPass
    \/ LoopExit

\* simulate_feeding_round runs its loop to the return without waiting on anything:
\* a pass that can be taken is taken
SimulationSpec ==
    /\ SimulationInit
    /\ [][SimulationNext]_vars
    /\ WF_vars(StartSimulation)
    /\ WF_vars(FeedingPass)
    /\ WF_vars(LoopExit)

-----------------------------------------------------------------------------
(* species.py: the relationship operations of Species and the Ecosystem     *)
(* aggregate.  An operation on an object returns the object after the call *)
(* together with what the call returned or raised.                         *)

\* Species.add_predator
add_predator(self, predator_id) ==
    IF Len(self.predators) < MAX_PREDATORS /\ predator_id \notin Range(self.predators)
    THEN [self |-> [self EXCEPT !.predators = Append(@, predator_id)], returned |-> TRUE]
    ELSE [self |-> self, returned |-> FALSE]

\* Species.add_prey
add_prey(self, prey_id) ==
    IF self.species_type = PRODUCER THEN [self |-> self, returned |-> FALSE]
    ELSE IF Len(self.prey) < MAX_PREY /\ prey_id \notin Range(self.prey)
         THEN [self |-> [self EXCEPT !.prey = Append(@, prey_id)], returned |-> TRUE]
         ELSE [self |-> self, returned |-> FALSE]

\* Ecosystem._validate_ecosystem: TRUE when no ValueError is raised
validate_ecosystem(species) ==
    \A i \in DOMAIN species :
        Range(species[i].predators) \cup Range(species[i].prey) \subseteq Ids(species)

-----------------------------------------------------------------------------
(* generator.py: ScenarioGenerator.generate_scenario.  The random draws    *)
(* are nondeterministic choices.  A generated id f"P_{bin}_{i}" is the     *)
(* tuple <<"P", bin, i>>.                                                   *)

PRODUCERS_PER_BIN == 3

\* animals generated per bin (10 in constants.py)
ANIMALS_PER_BIN == 3

\* bins generated, of the three of constants.py
NumBins == 1

BINS == <<"A", "B", "C">>

\* the bins the generated scenario is built for
GeneratedBins == SubSeq(BINS, 1, NumBins)

\* values of _round_to_50(random.randint(MIN_CALORIES, MAX_CALORIES)) the model draws
GeneratedCalories == {MIN_CALORIES, MAX_CALORIES}

NoGenerator ==
    [pc |-> "none", bin |-> 0, k |-> 0, all_species |-> <<>>, one_sided |-> {}]

IndexOf(species, id) == CHOOSE i \in DOMAIN species : species[i].id = id

bin_producers(species, bin_id) ==
    SelectSeq(species, LAMBDA s : s.species_type = PRODUCER /\ s.bin = bin_id)

bin_animals(species, bin_id) ==
    SelectSeq(species, LAMBDA s : s.species_type = ANIMAL /\ s.bin = bin_id)

\* sorted(animals, key=lambda x: x.calories_provided, reverse=True)
animals_sorted(species, bin_id) ==
    SortedDesc(bin_animals(species, bin_id),
               [id \in Ids(species) |-> species[IndexOf(species, id)].calories_provided])

\* the sequences random.shuffle(l)[:k] and random.sample(l, k) can return
Arrangements(l, k) ==
    {s \in [1..k -> Range(l)] : \A i, j \in 1..k : i # j => s[i] # s[j]}

Min(a, b) == IF a < b THEN a ELSE b

\* predator.add_prey(prey.id); prey.add_predator(predator.id).  one_sided collects
\* the pairs for which exactly one of the two calls returned True.
relate(g, predator_id, prey_id) ==
    LET i == IndexOf(g.all_species, predator_id)
        j == IndexOf(g.all_species, prey_id)
        fed == add_prey(g.all_species[i], prey_id)
        s1 == [g.all_species EXCEPT ![i] = fed.self]
        eaten == add_predator(s1[j], predator_id)
    IN  [g EXCEPT !.all_species = [s1 EXCEPT ![j] = eaten.self],
                  !.one_sided = @ \cup (IF fed.returned # eaten.returned
                                        THEN {<<predator_id, prey_id>>} ELSE {})]

\* The generator reads the relationship lists only through len() and `in`, so states
\* that differ in the order of a list alone are merged: after each pass the lists are
\* kept in the order of all_species.
InListOrder(g) ==
    LET ordered(ids) == SelectSeq(IdSeq(g.all_species), LAMBDA id : id \in Range(ids))
    IN  [g EXCEPT !.all_species =
            [i \in DOMAIN @ |-> [@[i] EXCEPT !.predators = ordered(@), !.prey = ordered(@)]]]

\* the loop of lines 119-121: each selected predator is related to the producer
RECURSIVE relate_predators(_, _, _)
relate_predators(g, predators, producer_id) ==
    IF predators = <<>> THEN g
    ELSE relate_predators(relate(g, Head(predators).id, producer_id),
                          Tail(predators), producer_id)

\* the loop of lines 132-134: the animal is related to each selected prey
RECURSIVE relate_prey(_, _, _)
relate_prey(g, animal_id, selected_prey) ==
    IF selected_prey = <<>> THEN g
    ELSE relate_prey(relate(g, animal_id, Head(selected_prey).id),
                     animal_id, Tail(selected_prey))

\* variant: one animal fewer than ANIMALS_PER_BIN
generate_animals_short(bin_id, provided, needed) ==
    [i \in 1..(ANIMALS_PER_BIN - 1) |->
        Species(<<"A", bin_id, i>>, ANIMAL, provided[i], needed[i], bin_id, <<>>, <<>>)]

\* ScenarioGenerator._generate_animals
generate_animals(bin_id, provided, needed) ==
    [i \in 1..ANIMALS_PER_BIN |->
        Species(<<"A", bin_id, i>>, ANIMAL, provided[i], needed[i], bin_id, <<>>, <<>>)]

\* ScenarioGenerator._generate_producers
generate_producers(bin_id, calories) ==
    [i \in 1..PRODUCERS_PER_BIN |->
        Species(<<"P", bin_id, i>>, PRODUCER, calories[i], 0, bin_id, <<>>, <<>>)]

GenInit ==
    /\ solution = <<>>
    /\ pc = "idle"
    /\ caller = None
    /\ errors = <<>>
    /\ is_valid = FALSE
    /\ stages = <<>>
    /\ sim_calls = 0
    /\ sim = [r \in Runs |-> NoSimulation]
    /\ gen = [NoGenerator EXCEPT !.pc = "generate_producers", !.bin = 1]
    /\ eco = None
    /\ search = NoSearch
    /\ rank = None
    /\ scoring = None

\* generate_scenario, lines 44-46: one pass of the loop
GenerateProducers ==
    /\ gen.pc = "generate_producers"
    /\ \E calories \in [1..PRODUCERS_PER_BIN -> {MAX_CALORIES}] :
           gen' = [gen EXCEPT
                     !.all_species = @ \o generate_producers(GeneratedBins[gen.bin], calories),
                     !.bin = IF gen.bin = Len(GeneratedBins) THEN 1 ELSE @ + 1,
                     !.pc = IF gen.bin = Len(GeneratedBins) THEN "generate_animals" ELSE @]
    /\ UNCHANGED <<solution, pc, caller, errors, is_valid, stages, sim_calls, sim, eco, search, rank, scoring>>

\* generate_scenario, lines 49-51: one pass of the loop
GenerateAnimals ==
    /\ gen.pc = "generate_animals"
    /\ \E provided \in [1..ANIMALS_PER_BIN -> GeneratedCalories] :
       \E needed \in [1..ANIMALS_PER_BIN -> {MIN_CALORIES}] :
           gen' = [gen EXCEPT
                     !.all_species = @ \o generate_animals(GeneratedBins[gen.bin], provided, needed),
                     !.bin = IF gen.bin = Len(GeneratedBins) THEN 1 ELSE @ + 1,
                     !.pc = IF gen.bin = Len(GeneratedBins) THEN "assign_predators" ELSE @,
                     !.k = 1]
    /\ UNCHANGED <<solution, pc, caller, errors, is_valid, stages, sim_calls, sim, eco, search, rank, scoring>>

\* _establish_bin_relationships, lines 114-121: one pass of the loop over the producers
AssignPredators ==
    /\ gen.pc = "assign_predators"
    /\ LET bin_id == GeneratedBins[gen.bin]
           producers == bin_producers(gen.all_species, bin_id)
           sorted == animals_sorted(gen.all_species, bin_id)
       IN  \E num_predators \in 2..3 :
           \E potential_predators \in Arrangements(sorted, Min(num_predators, Len(sorted))) :
               gen' = [InListOrder(relate_predators(gen, potential_predators,
                                                    producers[gen.k].id)) EXCEPT
                         !.k = IF gen.k = Len(producers) THEN 1 ELSE @ + 1,
                         !.pc = IF gen.k = Len(producers) THEN "assign_prey" ELSE @]
    /\ UNCHANGED <<solution, pc, caller, errors, is_valid, stages, sim_calls, sim, eco, search, rank, scoring>>

\* variant: only the animals with lower calories are potential prey
potential_prey_animals_only(sorted, i, producers) ==
    SubSeq(sorted, i + 1, Len(sorted))

\* animals_sorted[i+1:] + producers (i counted from 1 here)
potential_prey_of(sorted, i, producers) ==
    SubSeq(sorted, i + 1, Len(sorted)) \o producers

\* where _establish_relationships goes after the last animal of a bin
AfterBin(g) ==
    IF g.bin = Len(GeneratedBins) THEN [g EXCEPT !.pc = "construct", !.k = 0]
    ELSE [g EXCEPT !.pc = "assign_predators", !.bin = @ + 1, !.k = 1]

\* _establish_bin_relationships, lines 124-134: one pass of the loop over the animals
AssignPrey ==
    /\ gen.pc = "assign_prey"
    /\ LET bin_id == GeneratedBins[gen.bin]
           producers == bin_producers(gen.all_species, bin_id)
           sorted == animals_sorted(gen.all_species, bin_id)
           animal == sorted[gen.k]
           potential_prey == potential_prey_of(sorted, gen.k, producers)
           step(g) == IF gen.k = Len(sorted) THEN AfterBin(g) ELSE [g EXCEPT !.k = @ + 1]
       IN  IF potential_prey = <<>>
           THEN gen' = step(gen)
           ELSE \E n \in 2..3 :
                \E selected_prey \in Arrangements(potential_prey, Min(n, Len(potential_prey))) :
                    gen' = step(InListOrder(relate_prey(gen, animal.id, selected_prey)))
    /\ UNCHANGED <<solution, pc, caller, errors, is_valid, stages, sim_calls, sim, eco, search, rank, scoring>>

\* generate_scenario, line 56: return Ecosystem(all_species)
ReturnEcosystem ==
    /\ gen.pc = "construct"
    /\ gen' = [gen EXCEPT !.pc = IF validate_ecosystem(gen.all_species)
                                 THEN "returned" ELSE "raised"]
    /\ UNCHANGED <<solution, pc, caller, errors, is_valid, stages, sim_calls, sim, eco, search, rank, scoring>>

GenNext ==
    \/ GenerateProducers
    \/ GenerateAnimals
    \/ AssignPredators
    \/ AssignPrey
    \/ ReturnEcosystem

GenSpec == GenInit /\ [][GenNext]_vars

-----------------------------------------------------------------------------
(* species.py: the Ecosystem aggregate.  self.species is the list of the   *)
(* Species objects and self.species_dict maps an id to the position in     *)
(* that list of the object it refers to.                                   *)

\* operations applied to one ecosystem
MaxOps == 2

RemoveFirst(seq, x) ==
    IF x \notin Range(seq) THEN seq
    ELSE Remove(seq, CHOOSE i \in DOMAIN seq :
                         seq[i] = x /\ \A j \in 1..(i - 1) : seq[j] # x)

\* Species.remove_predator
remove_predator(self, predator_id) ==
    [self EXCEPT !.predators = RemoveFirst(@, predator_id)]

\* Species.remove_prey
remove_prey(self, prey_id) ==
    [self EXCEPT !.prey = RemoveFirst(@, prey_id)]

\* Ecosystem.__init__, lines 106-107
Ecosystem(species) ==
    [species |-> species,
     species_dict |-> [id \in Ids(species) |->
                          Max({i \in DOMAIN species : species[i].id = id})]]

\* Ecosystem.add_species
add_species(self, species) ==
    IF species.id \in DOMAIN self.species_dict THEN self
    ELSE [species |-> Append(self.species, species),
          species_dict |-> [id \in DOMAIN self.species_dict \cup {species.id} |->
                               IF id = species.id THEN Len(self.species) + 1
                               ELSE self.species_dict[id]]]

\* remove_species, lines 165-167: the loop over the prey of the removed species
RECURSIVE forget_predator(_, _, _)
forget_predator(self, prey_ids, species_id) ==
    IF prey_ids = <<>> THEN self
    ELSE LET prey_id == Head(prey_ids)
             after ==
                 IF prey_id \in DOMAIN self.species_dict
                 THEN [self EXCEPT !.species[self.species_dict[prey_id]] =
                                       remove_predator(@, species_id)]
                 ELSE self
         IN  forget_predator(after, Tail(prey_ids), species_id)

\* remove_species, lines 170-172: the loop over the predators of the removed species
RECURSIVE forget_prey(_, _, _)
forget_prey(self, predator_ids, species_id) ==
    IF predator_ids = <<>> THEN self
    ELSE LET predator_id == Head(predator_ids)
             after ==
                 IF predator_id \in DOMAIN self.species_dict
                 THEN [self EXCEPT !.species[self.species_dict[predator_id]] =
                                       remove_prey(@, species_id)]
                 ELSE self
         IN  forget_prey(after, Tail(predator_ids), species_id)

\* remove_species, lines 175-176: list.remove drops the first element equal to the
\* species (Species.__eq__ compares ids), del drops the index entry
drop(self, species_id) ==
    LET j == CHOOSE i \in DOMAIN self.species :
                 /\ self.species[i].id = species_id
                 /\ \A k \in 1..(i - 1) : self.species[k].id # species_id
    IN  [species |-> Remove(self.species, j),
         species_dict |-> [id \in DOMAIN self.species_dict \ {species_id} |->
                              IF self.species_dict[id] > j
                              THEN self.species_dict[id] - 1
                              ELSE self.species_dict[id]]]

\* Ecosystem.remove_species
remove_species(self, species_id) ==
    IF species_id \notin DOMAIN self.species_dict THEN self
    ELSE LET ix == self.species_dict[species_id]
             a == forget_predator(self, self.species[ix].prey, species_id)
             b == forget_prey(a, a.species[ix].predators, species_id)
         IN  drop(b, species_id)

\* The arguments Species(...) is called with, before __post_init__
Raw(id, species_type, calories_provided, calories_needed, bin, predators, prey) ==
    [id |-> id, species_type |-> species_type, calories_provided |-> calories_provided,
     calories_needed |-> calories_needed, bin |-> bin, predators |-> predators,
     prey |-> prey]

\* Species(**raw)
Constructed(raw) ==
    [i \in DOMAIN raw |->
        Species(raw[i].id, raw[i].species_type, raw[i].calories_provided,
                raw[i].calories_needed, raw[i].bin, raw[i].predators, raw[i].prey)]

\* a producer P, a herbivore H and a carnivore C, related on both sides
RawChain ==
    <<Raw("P", PRODUCER, 2000, 0, "A", <<"H">>, <<>>),
      Raw("H", ANIMAL, 1500, 1000, "A", <<"C">>, <<"P">>),
      Raw("C", ANIMAL, 1000, 1000, "A", <<>>, <<"H">>)>>

InputDefects ==
    {"none", "prey_side_only", "predator_side_only", "unknown_prey", "unknown_predator",
     "producer_needs_calories", "producer_has_prey", "too_many_predators", "too_many_prey"}

\* the lists of Species arguments an Ecosystem is constructed from
RawInput(d) ==
    CASE d = "none" -> RawChain
      [] d = "prey_side_only" -> [RawChain EXCEPT ![2].predators = <<>>]
      [] d = "predator_side_only" -> [RawChain EXCEPT ![2].prey = <<>>]
      [] d = "unknown_prey" -> [RawChain EXCEPT ![3].prey = <<"H", "X">>]
      [] d = "unknown_predator" -> [RawChain EXCEPT ![1].predators = <<"H", "X">>]
      [] d = "producer_needs_calories" -> [RawChain EXCEPT ![1].calories_needed = 500]
      [] d = "producer_has_prey" -> [RawChain EXCEPT ![1].prey = <<"H">>]
      [] d = "too_many_predators" ->
             [RawChain EXCEPT ![1].predators = <<"H", "C", "H", "C", "H">>]
      [] d = "too_many_prey" ->
             [RawChain EXCEPT ![3].prey = <<"H", "P", "H", "P", "H">>]

\* the species add_species is called with
Additions ==
    {Species("G", ANIMAL, 3000, 1000, "A", <<>>, <<"H">>),
     Species("G", ANIMAL, 3000, 1000, "A", <<>>, <<"H", "X">>),
     Species("H", ANIMAL, 3000, 1000, "A", <<>>, <<"P">>)}

\* the ids remove_species is called with
RemovedIds == {"P", "H", "C", "G", "X"}

NoCall == [op |-> "none", id |-> None, present |-> FALSE, before |-> <<>>]

EcoInit ==
    /\ solution = <<>>
    /\ pc = "idle"
    /\ caller = None
    /\ errors = <<>>
    /\ is_valid = FALSE
    /\ stages = <<>>
    /\ sim_calls = 0
    /\ sim = [r \in Runs |-> NoSimulation]
    /\ gen = None
    /\ search = NoSearch
    /\ rank = None
    /\ scoring = None
    /\ \E d \in InputDefects :
           eco = [pc |-> "new", input |-> RawInput(d), self |-> Ecosystem(<<>>),
                  raised |-> None, last |-> NoCall, ops |-> 0]

\* Ecosystem(species) on freshly constructed Species: __post_init__ of each, then
\* __init__ with _validate_ecosystem
Construct ==
    /\ eco.pc = "new"
    /\ LET species == Constructed(eco.input)
       IN  eco' = IF validate_ecosystem(species)
                  THEN [eco EXCEPT !.pc = "ready", !.self = Ecosystem(species)]
                  ELSE [eco EXCEPT !.pc = "raised", !.raised = "ValueError"]
    /\ UNCHANGED <<solution, pc, caller, errors, is_valid, stages, sim_calls, sim, gen, search, rank, scoring>>

\* ecosystem.add_species(species)
AddSpecies ==
    /\ eco.pc = "ready"
    /\ eco.ops < MaxOps
    /\ \E species \in Additions :
           eco' = [eco EXCEPT
                     !.self = add_species(@, species),
                     !.last = [op |-> "add_species", id |-> species.id,
                               present |-> species.id \in DOMAIN eco.self.species_dict,
                               before |-> eco.self],
                     !.ops = @ + 1]
    /\ UNCHANGED <<solution, pc, caller, errors, is_valid, stages, sim_calls, sim, gen, search, rank, scoring>>

\* ecosystem.remove_species(species_id): the code has no raise statement
RemoveSpecies ==
    /\ eco.pc = "ready"
    /\ eco.ops < MaxOps
    /\ \E species_id \in RemovedIds :
           eco' = [eco EXCEPT
                     !.self = remove_species(@, species_id),
                     !.raised = None,
                     !.last = [op |-> "remove_species", id |-> species_id,
                               present |-> species_id \in DOMAIN eco.self.species_dict,
                               before |-> eco.self],
                     !.ops = @ + 1]
    /\ UNCHANGED <<solution, pc, caller, errors, is_valid, stages, sim_calls, sim, gen, search, rank, scoring>>

EcoNext ==
    \/ Construct
    \/ AddSpecies
    \/ RemoveSpecies

EcoSpec == EcoInit /\ [][EcoNext]_vars

-----------------------------------------------------------------------------
(* generator.py: SolutionGenerator.generate_solutions.  Every candidate is  *)
(* handed to validate_solution, which runs as the actions of the program   *)
(* above on `solution`.  The wall clock is read after each bin; whether it *)
(* is past SOLUTION_TIMEOUT then is a nondeterministic choice.             *)

\* itertools.combinations(iterable, r), in the order it yields them
RECURSIVE combinations(_, _)
combinations(iterable, r) ==
    IF r = 0 THEN << <<>> >>
    ELSE IF Len(iterable) < r THEN <<>>
    ELSE LET with == combinations(Tail(iterable), r - 1)
             without == combinations(Tail(iterable), r)
         IN  [k \in DOMAIN with |-> <<Head(iterable)>> \o with[k]] \o without

\* SolutionGenerator._create_solution_subset
create_solution_subset(producers, animals) ==
    LET all_species == producers \o animals
        solution_ids == Ids(all_species)
    IN  [k \in DOMAIN all_species |->
            Species(all_species[k].id, all_species[k].species_type,
                    all_species[k].calories_provided, all_species[k].calories_needed,
                    all_species[k].bin,
                    SelectSeq(all_species[k].predators, LAMBDA p : p \in solution_ids),
                    SelectSeq(all_species[k].prey, LAMBDA p : p \in solution_ids))]

\* ScenarioGenerator._calculate_bin_total_calories
calculate_bin_total_calories(producers) ==
    SumSeq([k \in DOMAIN producers |-> producers[k].calories_provided])

\* ScenarioGenerator._rank_bins_by_calories: the bin ids, highest total first
rank_bins_by_calories(species) ==
    LET bin_calories ==
            [bin_id \in Range(BINS) |->
                calculate_bin_total_calories(bin_producers(species, bin_id))]
        ranked == SortedDesc([k \in DOMAIN BINS |-> [id |-> BINS[k]]], bin_calories)
    IN  [k \in DOMAIN ranked |-> ranked[k].id]

\* a fourth producer or a sixth animal in bin A of a roster
Extras == {"none", "fourth_producer", "sixth_animal"}

Extended(roster, e) ==
    CASE e = "none" -> roster
      [] e = "fourth_producer" ->
            [roster EXCEPT ![6].prey = Append(@, "P4")]
                \o <<Species("P4", PRODUCER, 2000, 0, "A", <<>>, <<>>)>>
      [] e = "sixth_animal" ->
            roster \o <<Species("A6", ANIMAL, 2000, 1000, "A", <<>>, <<"P3">>)>>

\* calories of the producers of bin B; 0 leaves the bin empty
HerdCalories == {0, 2000, 5000}

\* three producers and five herbivores of bin B
Herd(q) ==
    IF q = 0 THEN <<>>
    ELSE <<Species("Q1", PRODUCER, q, 0, "B", <<>>, <<>>),
           Species("Q2", PRODUCER, q, 0, "B", <<>>, <<>>),
           Species("Q3", PRODUCER, q, 0, "B", <<>>, <<>>),
           Species("B1", ANIMAL, 5000, 1000, "B", <<>>, <<"Q1">>),
           Species("B2", ANIMAL, 4000, 1000, "B", <<>>, <<"Q1">>),
           Species("B3", ANIMAL, 3000, 1000, "B", <<>>, <<"Q2">>),
           Species("B4", ANIMAL, 2000, 1000, "B", <<>>, <<"Q2">>),
           Species("B5", ANIMAL, 1500, 1000, "B", <<>>, <<"Q3">>)>>

\* the ecosystems the search is run on: bin C is always empty
SearchedEcosystems ==
    {Linked(Extended(Roster(p1, 2000, n1, <<"P1", "P2">>, 1000, x4), e) \o Herd(q)) :
        p1 \in ProducerCalories, n1 \in Needs, x4 \in PreyChoicesA4,
        e \in Extras, q \in HerdCalories}

SearchInit ==
    /\ \E species \in SearchedEcosystems :
           search = [NoSearch EXCEPT !.pc = "start", !.ecosystem = species]
    /\ solution = <<>>
    /\ pc = "idle"
    /\ caller = None
    /\ errors = <<>>
    /\ is_valid = FALSE
    /\ stages = <<>>
    /\ sim_calls = 0
    /\ sim = [r \in Runs |-> NoSimulation]
    /\ gen = None
    /\ eco = None
    /\ rank = None
    /\ scoring = None

\* generate_solutions, lines 182-186
StartSearch ==
    /\ search.pc = "start"
    /\ search' = [search EXCEPT
                    !.ranked_bins = rank_bins_by_calories(search.ecosystem),
                    !.b = 1,
                    !.pc = "enter_bin"]
    /\ UNCHANGED <<solution, pc, caller, errors, is_valid, stages, sim_calls, sim, gen, eco, rank, scoring>>

\* generate_solutions, lines 188-199, and _generate_bin_solutions, lines 220-226:
\* the bin's species are selected and the loop over the combinations starts
EnterBin ==
    /\ search.pc = "enter_bin"
    /\ LET bin_id == search.ranked_bins[search.b]
       IN  search' = [search EXCEPT
                        !.producers = bin_producers(search.ecosystem, bin_id),
                        !.combos = combinations(bin_animals(search.ecosystem, bin_id),
                                                TOTAL_ANIMALS_NEEDED),
                        !.evaluated = <<>>,
                        !.verdicts = <<>>,
                        !.bin_solutions = <<>>,
                        !.attempted = Append(@, bin_id),
                        !.pc = "bin"]
    /\ UNCHANGED <<solution, pc, caller, errors, is_valid, stages, sim_calls, sim, gen, eco, rank, scoring>>

\* _generate_bin_solutions, lines 226-231: the next combination is made a
\* candidate and validate_solution(Ecosystem(solution), solution) is called
Evaluate ==
    /\ search.pc = "bin"
    /\ search.combos # <<>>
    /\ LET candidate == create_solution_subset(search.producers, Head(search.combos))
       IN  /\ solution' = candidate
           /\ search' = [search EXCEPT
                           !.evaluated = Append(@, candidate),
                           !.raised = IF validate_ecosystem(candidate)
                                      THEN None ELSE "ValueError",
                           !.pc = IF validate_ecosystem(candidate)
                                  THEN "validating" ELSE "raised"]
           /\ pc' = IF validate_ecosystem(candidate) THEN "start" ELSE "idle"
    /\ caller' = None
    /\ errors' = <<>>
    /\ is_valid' = FALSE
    /\ stages' = <<>>
    /\ sim_calls' = 0
    /\ sim' = [r \in Runs |-> NoSimulation]
    /\ UNCHANGED <<gen, eco, rank, scoring>>

\* _generate_bin_solutions, lines 233-234: validate_solution has returned
Keep ==
    /\ search.pc = "validating"
    /\ pc = "done"
    /\ search' = [search EXCEPT
                    !.verdicts = Append(@, is_valid),
                    !.bin_solutions = @ \o When(is_valid, solution),
                    !.accepted = @ \o When(is_valid, solution),
                    !.combos = Tail(@),
                    !.pc = "bin"]
    /\ pc' = "idle"
    /\ UNCHANGED <<solution, caller, errors, is_valid, stages, sim_calls, sim, gen, eco, rank, scoring>>

\* a mutation of after_bin: the timeout does not end the loop over the bins
after_bin_without_break(self, expired) ==
    [self EXCEPT !.solutions = @ \o self.bin_solutions,
                 !.expired = expired,
                 !.b = IF self.b = Len(self.ranked_bins) THEN @ ELSE @ + 1,
                 !.pc = IF self.b = Len(self.ranked_bins) THEN "returned" ELSE "enter_bin"]

\* generate_solutions, lines 201-214: the bin's solutions are added, and the
\* loop ends when the clock is past the budget or no bin is left
after_bin(self, expired) ==
    [self EXCEPT !.solutions = @ \o self.bin_solutions,
                 !.expired = expired,
                 !.b = IF expired \/ self.b = Len(self.ranked_bins) THEN @ ELSE @ + 1,
                 !.pc = IF expired \/ self.b = Len(self.ranked_bins)
                        THEN "returned" ELSE "enter_bin"]

\* _generate_bin_solutions returns, line 239; generate_solutions, lines 201-214
EndOfBin ==
    /\ search.pc = "bin"
    /\ search.combos = <<>>
    /\ \E expired \in BOOLEAN : search' = after_bin(search, expired)
    /\ UNCHANGED <<solution, pc, caller, errors, is_valid, stages, sim_calls, sim, gen, eco, rank, scoring>>

SearchNext ==
    \/ StartSearch
    \/ EnterBin
    \/ Evaluate
    \/ Keep
    \/ EndOfBin
    \/ CountCheck
    \/ BinCheck
    \/ StructureCheck
    \/ StartSimulation
    \/ FeedingPass
    \/ LoopExit
    \/ CollectDiagnostics

SearchSpec == SearchInit /\ [][SearchNext]_vars

-----------------------------------------------------------------------------
(* validator.py: SolutionValidator.get_solution_score, and generator.py:   *)
(* SolutionGenerator.rank_solutions.  A Python float that is a quotient of *)
(* integers is held as that quotient in lowest terms; two floats are       *)
(* compared as the quotients they stand for.                               *)

\* the quotient num/den in lowest terms
Ratio(num, den) ==
    LET g == Gcd(num, den)
    IN  [num |-> num \div g, den |-> den \div g]

\* a >= b, both denominators being positive
AtLeast(a, b) == a.num * b.den >= b.num * a.den

\* SCORING_WEIGHTS, in tenths
SCORING_WEIGHTS ==
    [caloric_efficiency |-> 4, relationship_complexity |-> 4, producer_ratio |-> 2]

\* sum(h['calories_consumed'] for h in feeding_history), in ledger units
total_calories_consumed(feeding_history) ==
    SumSeq([k \in DOMAIN feeding_history |-> feeding_history[k].calories_consumed])

\* sum(s.calories_needed for s in solution if s.species_type == ANIMAL)
total_calories_needed(species) ==
    SumSeq([k \in DOMAIN animals_of(species) |-> animals_of(species)[k].calories_needed])

\* a mutation of caloric_efficiency: consumed over needed
caloric_efficiency_inverted(species, feeding_history) ==
    IF total_calories_needed(species) > 0
    THEN Ratio(total_calories_consumed(feeding_history),
               total_calories_needed(species) * Scale)
    ELSE Ratio(0, 1)

\* get_solution_score, lines 162-164
caloric_efficiency(species, feeding_history) ==
    IF total_calories_consumed(feeding_history) > 0
    THEN Ratio(total_calories_needed(species) * Scale,
               total_calories_consumed(feeding_history))
    ELSE Ratio(0, 1)

\* get_solution_score, lines 167-169
relationship_complexity(feeding_history) ==
    LET unique_relationships ==
            Cardinality({<<feeding_history[k].predator, feeding_history[k].prey>> :
                            k \in DOMAIN feeding_history})
        max_possible_relationships ==
            TOTAL_ANIMALS_NEEDED * (TOTAL_PRODUCERS_NEEDED + TOTAL_ANIMALS_NEEDED - 1)
    IN  Ratio(unique_relationships, max_possible_relationships)

\* get_solution_score, line 172
producer_ratio(species) == Ratio(Len(producers_of(species)), Len(species))

\* get_solution_score, lines 186-195: the weighted sum, over a common denominator
get_solution_score(species, feeding_history) ==
    LET e == caloric_efficiency(species, feeding_history)
        r == relationship_complexity(feeding_history)
        p == producer_ratio(species)
    IN  Ratio(SCORING_WEIGHTS.caloric_efficiency * e.num * r.den * p.den
              + SCORING_WEIGHTS.relationship_complexity * r.num * e.den * p.den
              + SCORING_WEIGHTS.producer_ratio * p.num * e.den * r.den,
              10 * e.den * r.den * p.den)

\* a mutation of sorted_by_score: reverse=True is left out
RECURSIVE sorted_by_score_ascending(_)
sorted_by_score_ascending(scored) ==
    IF scored = <<>> THEN <<>>
    ELSE LET rest == sorted_by_score_ascending(SubSeq(scored, 1, Len(scored) - 1))
             x == scored[Len(scored)]
             before == SelectSeq(rest, LAMBDA y : AtLeast(x.score, y.score))
             after == SelectSeq(rest, LAMBDA y : ~AtLeast(x.score, y.score))
         IN  before \o <<x>> \o after

\* sorted(scored_solutions, key=lambda x: x[1], reverse=True): stable
RECURSIVE sorted_by_score(_)
sorted_by_score(scored) ==
    IF scored = <<>> THEN <<>>
    ELSE LET rest == sorted_by_score(SubSeq(scored, 1, Len(scored) - 1))
             x == scored[Len(scored)]
             before == SelectSeq(rest, LAMBDA y : AtLeast(y.score, x.score))
             after == SelectSeq(rest, LAMBDA y : ~AtLeast(y.score, x.score))
         IN  before \o <<x>> \o after

\* solutions handed to rank_solutions at once
MaxRanked == 3

\* calories of producer P1 and need of animal A1 in the solutions that are ranked
RankedCalories == {1000, 1050, 2000}

RankedNeeds == {1000, 2000}

RankedPool ==
    {Roster(p1, 2000, n1, <<"P1", "P2">>, 1000, <<"P3">>) :
        p1 \in RankedCalories, n1 \in RankedNeeds}

RECURSIVE ListsOf(_, _)
ListsOf(S, n) ==
    IF n = 0 THEN {<<>>}
    ELSE {<<>>} \cup {<<x>> \o l : x \in S, l \in ListsOf(S, n - 1)}

RankInit ==
    /\ \E solutions \in ListsOf(RankedPool, MaxRanked) :
           rank = [pc |-> "loop", solutions |-> solutions, i |-> 1,
                   outcomes |-> <<>>, scored_solutions |-> <<>>,
                   ranked_solutions |-> <<>>]
    /\ solution = <<>>
    /\ pc = "idle"
    /\ caller = None
    /\ errors = <<>>
    /\ is_valid = FALSE
    /\ stages = <<>>
    /\ sim_calls = 0
    /\ sim = [r \in Runs |-> NoSimulation]
    /\ gen = None
    /\ eco = None
    /\ search = NoSearch
    /\ scoring = None

\* rank_solutions, line 251: the loop takes the next solution
NextSolution ==
    /\ rank.pc = "loop"
    /\ rank.i <= Len(rank.solutions)
    /\ rank' = [rank EXCEPT !.pc = "simulating"]
    /\ solution' = rank.solutions[rank.i]
    /\ pc' = "start"
    /\ caller' = None
    /\ stages' = <<>>
    /\ sim_calls' = 0
    /\ UNCHANGED <<errors, is_valid, sim, gen, eco, search, scoring>>

\* rank_solutions, lines 256-260: simulate_feeding_round has returned
ScoreSolution ==
    /\ rank.pc = "simulating"
    /\ pc = "simulating"
    /\ caller = "rank_solutions"
    /\ Returned
    /\ LET score == get_solution_score(solution, sim[1].feeding_history)
       IN  rank' = [rank EXCEPT
                      !.pc = "loop",
                      !.i = @ + 1,
                      !.outcomes = Append(@, sim[1]),
                      !.scored_solutions =
                          @ \o When(sim[1].success,
                                    [solution |-> solution, score |-> score])]
    /\ pc' = "idle"
    /\ UNCHANGED <<solution, caller, errors, is_valid, stages, sim_calls, sim, gen, eco,
                   search, scoring>>

\* rank_solutions, lines 273-282
SortScored ==
    /\ rank.pc = "loop"
    /\ rank.i > Len(rank.solutions)
    /\ rank' = [rank EXCEPT !.pc = "returned",
                            !.ranked_solutions = sorted_by_score(rank.scored_solutions)]
    /\ UNCHANGED <<solution, pc, caller, errors, is_valid, stages, sim_calls, sim, gen,
                   eco, search, scoring>>

RankNext ==
    \/ NextSolution
    \/ StartSimulation
    \/ FeedingPass
    \/ LoopExit
    \/ ScoreSolution
    \/ SortScored

RankSpec == RankInit /\ [][RankNext]_vars

-----------------------------------------------------------------------------
(* validator.py: get_solution_score called on one solution with several    *)
(* event logs, as any caller holding a solution and a log may do.          *)

\* event logs scored for one solution
MaxScored == 2

\* the producer-herbivore-carnivore chains that are scored: the animals need 0 or more
ScoredSolutions ==
    {Chain(1050, 1000, hn, 500, cn, "A") : hn \in {0, 1000}, cn \in {0, 500}}

ScoredAmounts == {0, 500, 1000, 2000}

\* an entry of feeding_history
Event(predator, prey, calories) ==
    [predator |-> predator, prey |-> prey, calories_consumed |-> calories * Scale]

\* event logs of at most one draw of H from P and one of C from H
ScoredHistories ==
    {<<>>}
    \cup {<<Event("H", "P", a)>> : a \in ScoredAmounts}
    \cup {<<Event("H", "P", a), Event("C", "H", b)>> : a \in ScoredAmounts, b \in ScoredAmounts}

ScoreInit ==
    /\ \E species \in ScoredSolutions :
           scoring = [solution |-> species, results |-> <<>>]
    /\ solution = <<>>
    /\ pc = "idle"
    /\ caller = None
    /\ errors = <<>>
    /\ is_valid = FALSE
    /\ stages = <<>>
    /\ sim_calls = 0
    /\ sim = [r \in Runs |-> NoSimulation]
    /\ gen = None
    /\ eco = None
    /\ search = NoSearch
    /\ rank = None

\* get_solution_score(solution, feeding_history), lines 162-164
ScoreHistory ==
    /\ Len(scoring.results) < MaxScored
    /\ \E feeding_history \in ScoredHistories :
           scoring' = [scoring EXCEPT
                         !.results =
                             Append(@, [feeding_history |-> feeding_history,
                                        caloric_efficiency |->
                                            caloric_efficiency(scoring.solution,
                                                               feeding_history)])]
    /\ UNCHANGED <<solution, pc, caller, errors, is_valid, stages, sim_calls, sim, gen,
                   eco, search, rank>>

ScoreNext == ScoreHistory

ScoreSpec == ScoreInit /\ [][ScoreNext]_vars

-----------------------------------------------------------------------------
(* Properties *)

\* simulate_feeding_round run to its return: the passes of the loop, then the final checks
RECURSIVE simulate_feeding_round(_)
simulate_feeding_round(self) ==
    IF get_next_predator(self) = None THEN FinalChecks(self)
    ELSE LET after == FeedPass(self)
         IN  IF after.pc = "returned" THEN after ELSE simulate_feeding_round(after)

Succeeded(r) == sim[r].pc = "returned" /\ sim[r].success

ProducerCount == Cardinality({i \in DOMAIN solution : solution[i].species_type = PRODUCER})

AnimalCount == Cardinality({i \in DOMAIN solution : solution[i].species_type = ANIMAL})

CorrectCounts == ProducerCount = 3 /\ AnimalCount = 5

BinsUsed == {solution[i].bin : i \in DOMAIN solution}

\* the calories the log records as consumed by predator id, in ledger units
Consumed(history, id) ==
    LET mine == SelectSeq(history, LAMBDA e : e.predator = id)
    IN  SumSeq([k \in DOMAIN mine |-> mine[k].calories_consumed])

\* the scenario of the specification with P providing pp; H's and C's own
\* calories_provided are whatever the candidate gives them
IsScenario(pp) ==
    /\ Len(solution) = 3
    /\ solution = Chain(pp, solution[2].calories_provided, 1000,
                        solution[3].calories_provided, 500, "A")

\* C1: whenever simulate_feeding_round returns success, every species of the
\* candidate has a remaining-calorie ledger value strictly greater than 0.
C1_DepletionGuard ==
    \A r \in Runs :
        Succeeded(r) =>
            \A i \in DOMAIN solution : sim[r].calories_remaining[solution[i].id] > 0

\* a successful run in which calories were drawn
C1_Witness ==
    /\ Succeeded(1)
    /\ \E i \in DOMAIN solution :
           sim[1].calories_remaining[solution[i].id] < solution[i].calories_provided * Scale

\* C2: whenever simulate_feeding_round returns success, for every Animal the sum of
\* calories_consumed over the log entries whose predator it is equals its calories_needed.
C2_SingleSitting ==
    \A r \in Runs :
        Succeeded(r) =>
            \A i \in DOMAIN solution :
                solution[i].species_type = ANIMAL =>
                    Consumed(sim[r].feeding_history, solution[i].id)
                        = solution[i].calories_needed * Scale

\* a successful run in which an animal's need was split over three tied prey
C2_Witness ==
    /\ Succeeded(1)
    /\ \E i \in DOMAIN solution :
           Len(SelectSeq(sim[1].feeding_history,
                         LAMBDA e : e.predator = solution[i].id)) = 3

C5_BinRejection ==
    (caller = "validate_solution" /\ CorrectCounts /\ Cardinality(BinsUsed) = 2) =>
        /\ sim_calls = 0
        /\ \A r \in Runs : sim[r] = NoSimulation
        /\ pc \in {"bin", "done"}
        /\ pc = "done" => (~is_valid /\ errors = <<InvalidBin>> /\ stages = <<"count", "bin">>)

C5_Witness ==
    /\ caller = "validate_solution" /\ CorrectCounts /\ Cardinality(BinsUsed) = 2
    /\ pc = "done"
    /\ errors = <<InvalidBin>>

StageOrder == <<"count", "bin", "structure", "simulation">>

StageOfKind(kind) ==
    CASE kind \in {"invalid_producer_count", "invalid_animal_count"} -> "count"
      [] kind = "invalid_bin" -> "bin"
      [] kind \in {"depleted", "could_not_obtain"} -> "simulation"
      [] OTHER -> "structure"

C7_ExactDepletionFails ==
    \A r \in Runs :
        (IsScenario(1000) /\ sim[r].pc = "returned") =>
            /\ ~sim[r].success
            /\ "H" \notin sim[r].has_eaten
            /\ sim[r].calories_remaining["P"] = 1000 * Scale
            /\ \A k \in DOMAIN sim[r].feeding_history : sim[r].feeding_history[k].prey # "P"

\* the run returned after C, holding more than H, ate first and H was then refused
C7_Witness ==
    /\ IsScenario(1000)
    /\ sim[1].pc = "returned"
    /\ sim[1].feeding_history = <<Event("C", "H", 500)>>

\* H and C provide an amount of the valid calorie range
ValidChainCalories ==
    \A i \in {2, 3} :
        /\ solution[i].calories_provided >= MIN_CALORIES
        /\ solution[i].calories_provided <= MAX_CALORIES

\* C8 as stated: with P providing 1050 the simulation succeeds with the log
\* (H, P, 1000), (C, H, 500), whatever valid amounts H and C provide themselves.
C8_AsStated ==
    (IsScenario(1050) /\ ValidChainCalories /\ sim[1].pc = "returned") =>
        /\ sim[1].success
        /\ sim[1].feeding_history = <<Event("H", "P", 1000), Event("C", "H", 500)>>

\* H is selected before C and both draws leave their prey above 0
HFeedsFirst ==
    /\ solution[2].calories_provided >= solution[3].calories_provided
    /\ solution[2].calories_provided > 500
    /\ solution[3].calories_provided > 0

\* C8: with P providing 1050, H providing more than 500 and at least as much as C, and
\* C providing more than 0, the simulation succeeds with the log (H, P, 1000), (C, H, 500).
C8_ScenarioSucceeds ==
    \A r \in Runs :
        (IsScenario(1050) /\ HFeedsFirst /\ sim[r].pc = "returned") =>
            /\ sim[r].success
            /\ sim[r].feeding_history = <<Event("H", "P", 1000), Event("C", "H", 500)>>

\* the scenario has returned with H and C providing the same amount
C8_Witness ==
    /\ IsScenario(1050) /\ HFeedsFirst
    /\ solution[2].calories_provided = solution[3].calories_provided
    /\ sim[1].pc = "returned"

\* one producer, a herbivore eating it and a carnivore eating the herbivore
IsFoodChain ==
    /\ Len(solution) = 3
    /\ solution[1].species_type = PRODUCER
    /\ solution[2].species_type = ANIMAL /\ solution[2].prey = <<solution[1].id>>
    /\ solution[3].species_type = ANIMAL /\ solution[3].prey = <<solution[2].id>>

\* C9: validate_solution accepts, with no error, a single-bin food chain of one
\* Producer and two Animals in which the feeding round succeeds.
C9_FoodChainAccepted ==
    (/\ caller = "validate_solution"
     /\ pc = "done"
     /\ IsFoodChain
     /\ Cardinality(BinsUsed) = 1
     /\ simulate_feeding_round(FeedingSimulation(solution, 1)).success) =>
        (is_valid /\ errors = <<>>)

\* the calories_provided of the prey of s that are in the candidate
ProvidedByPrey(s) ==
    LET prey == SelectSeq(solution, LAMBDA p : p.id \in Range(s.prey))
    IN  SumSeq([k \in DOMAIN prey |-> prey[k].calories_provided])

Starving ==
    \E i \in DOMAIN solution :
        /\ solution[i].species_type = ANIMAL
        /\ solution[i].prey # <<>>
        /\ solution[i].calories_needed > ProvidedByPrey(solution[i])

\* every relationship stays in the candidate and is listed on both sides, every
\* Animal has prey and every Producer a predator
WellWired ==
    \A i \in DOMAIN solution :
        /\ Range(solution[i].prey) \cup Range(solution[i].predators) \subseteq Ids(solution)
        /\ solution[i].species_type = ANIMAL => solution[i].prey # <<>>
        /\ solution[i].species_type = PRODUCER => solution[i].predators # <<>>
        /\ \A j \in DOMAIN solution :
               solution[j].id \in Range(solution[i].prey)
                   <=> solution[i].id \in Range(solution[j].predators)

\* C10: when an Animal needs more than its prey provide, validate_solution rejects
\* the candidate with an error reporting a depleted species.  Stated for candidates
\* with 3 Producers and 5 Animals in one bin and sound relationships, which have no
\* other defect for the validator to report.
C10_DepletionReported ==
    (/\ caller = "validate_solution"
     /\ pc = "done"
     /\ CorrectCounts
     /\ Cardinality(BinsUsed) = 1
     /\ WellWired
     /\ Starving) =>
        /\ ~is_valid
        /\ \E k \in DOMAIN errors : errors[k].kind = "depleted"

\* the simulation stage of validate_solution has run and the simulation failed
SimulationFailed ==
    /\ caller = "validate_solution"
    /\ pc = "done"
    /\ stages = StageOrder
    /\ ~sim[1].success

\* C11: when the structural checks pass and the feeding simulation fails,
\* validate_solution returns is_valid = false with an insufficient-calories entry for
\* every Animal not in has_eaten and a depleted entry for exactly the species whose
\* ledger value is at or below zero.
C11_DiagnosticsAsStated ==
    SimulationFailed =>
        /\ ~is_valid
        /\ \A i \in DOMAIN solution :
               LET s == solution[i]
               IN  /\ (s.species_type = ANIMAL /\ s.id \notin sim[1].has_eaten)
                       => Error("could_not_obtain", s.id) \in Range(errors)
                   /\ Error("depleted", s.id) \in Range(errors)
                       <=> sim[1].calories_remaining[s.id] <= 0

\* the species of the ecosystem generate_scenario returned
Generated == gen.all_species

Returned_Ecosystem == gen.pc = "returned"

\* C12: every ecosystem returned by generate_scenario has, in each configured bin,
\* exactly PRODUCERS_PER_BIN Producers and exactly ANIMALS_PER_BIN Animals, and every
\* Producer in it has calories_needed = 0 and an empty prey list.
C12_GeneratedCounts ==
    Returned_Ecosystem =>
        /\ \A b \in DOMAIN GeneratedBins :
               /\ Cardinality({i \in DOMAIN Generated :
                                  /\ Generated[i].bin = GeneratedBins[b]
                                  /\ Generated[i].species_type = PRODUCER}) = PRODUCERS_PER_BIN
               /\ Cardinality({i \in DOMAIN Generated :
                                  /\ Generated[i].bin = GeneratedBins[b]
                                  /\ Generated[i].species_type = ANIMAL}) = ANIMALS_PER_BIN
        /\ \A i \in DOMAIN Generated :
               /\ Generated[i].bin \in Range(GeneratedBins)
               /\ Generated[i].species_type = PRODUCER =>
                      (Generated[i].calories_needed = 0 /\ Generated[i].prey = <<>>)

\* an ecosystem was returned in which an animal holds MAX_PREY prey
C12_Witness ==
    /\ Returned_Ecosystem
    /\ \E i \in DOMAIN Generated : Len(Generated[i].prey) = MAX_PREY

\* C13: in every ecosystem returned by generate_scenario, X lists Y in its prey list
\* if and only if Y lists X in its predators list.
C13_GeneratedBidirectional ==
    Returned_Ecosystem =>
        \A i, j \in DOMAIN Generated :
            Generated[j].id \in Range(Generated[i].prey)
                <=> Generated[i].id \in Range(Generated[j].predators)

\* C14: in every ecosystem returned by generate_scenario every Animal has at least
\* one prey and every Producer has at least one predator.
C14_EveryoneRelated ==
    Returned_Ecosystem =>
        \A i \in DOMAIN Generated :
            /\ Generated[i].species_type = ANIMAL => Generated[i].prey # <<>>
            /\ Generated[i].species_type = PRODUCER => Generated[i].predators # <<>>

\* an ecosystem was returned in which an animal no producer selected has the two prey
\* of its own draw and a producer has the two predators of its own draw
C14_Witness ==
    /\ Returned_Ecosystem
    /\ \E i \in DOMAIN Generated :
           Generated[i].species_type = ANIMAL /\ Len(Generated[i].prey) = 2
    /\ \E i \in DOMAIN Generated :
           Generated[i].species_type = PRODUCER /\ Len(Generated[i].predators) = 2

\* C15: every attempt to relate a predator to a prey either adds the prey to the
\* predator's prey list and the predator to the prey's predators list, or changes
\* neither list.
C15_RelateIsAtomic == gen.one_sided = {}

\* the last call on the ecosystem was remove_species
Removed(present) ==
    /\ eco.pc = "ready"
    /\ eco.last.op = "remove_species"
    /\ eco.last.present = present

\* C16: after remove_species(id) on a present id the species is gone from the species
\* list and from the id index, and no remaining species lists id in its predators or
\* prey.
C16_NoDanglingAfterRemove ==
    Removed(TRUE) =>
        /\ eco.last.id \notin Ids(eco.self.species)
        /\ eco.last.id \notin DOMAIN eco.self.species_dict
        /\ \A i \in DOMAIN eco.self.species :
               eco.last.id \notin Range(eco.self.species[i].predators)
                                      \cup Range(eco.self.species[i].prey)

\* C17: remove_species(id) with an id that is not in the ecosystem fails with a
\* NotFound error and leaves the ecosystem unchanged.
C17_RemoveAbsentFails ==
    Removed(FALSE) =>
        /\ eco.raised = "NotFound"
        /\ eco.self = eco.last.before

\* the arguments are malformed: an id that is not in the aggregate, a Producer with
\* needs or prey, or a list longer than its bound
Malformed(raw) ==
    \E i \in DOMAIN raw :
        \/ Range(raw[i].predators) \cup Range(raw[i].prey)
               \notin SUBSET {raw[j].id : j \in DOMAIN raw}
        \/ raw[i].species_type = PRODUCER
               /\ (raw[i].calories_needed # 0 \/ raw[i].prey # <<>>)
        \/ Len(raw[i].predators) > MAX_PREDATORS
        \/ Len(raw[i].prey) > MAX_PREY

\* C18: constructing an Ecosystem from malformed input raises a construction error.
C18_MalformedInputRaises ==
    (eco.pc # "new" /\ Malformed(eco.input)) => eco.pc = "raised"

\* the loop over the combinations of the current bin has ended
BinSearched == search.pc = "bin" /\ search.combos = <<>>

ChooseFrom(S, n) == {T \in SUBSET S : Cardinality(T) = n}

\* the id sets of TOTAL_PRODUCERS_NEEDED producers and TOTAL_ANIMALS_NEEDED animals of a bin
RequiredCombinations(species, bin_id) ==
    {P \cup A :
        P \in ChooseFrom(Ids(bin_producers(species, bin_id)), TOTAL_PRODUCERS_NEEDED),
        A \in ChooseFrom(Ids(bin_animals(species, bin_id)), TOTAL_ANIMALS_NEEDED)}

\* the relationship lists of the candidate are those of the ecosystem, cut to the candidate
FilteredFrom(species, candidate) ==
    \A k \in DOMAIN candidate :
        LET original == species[IndexOf(species, candidate[k].id)]
        IN  /\ candidate[k].predators =
                   SelectSeq(original.predators, LAMBDA p : p \in Ids(candidate))
            /\ candidate[k].prey = SelectSeq(original.prey, LAMBDA p : p \in Ids(candidate))

RequiredCounts(candidate) ==
    /\ Len(bin_producers(candidate, candidate[1].bin)) = TOTAL_PRODUCERS_NEEDED
    /\ Len(SelectSeq(candidate, LAMBDA s : s.species_type = PRODUCER)) = TOTAL_PRODUCERS_NEEDED
    /\ Len(SelectSeq(candidate, LAMBDA s : s.species_type = ANIMAL)) = TOTAL_ANIMALS_NEEDED

\* C19: once a bin has been attempted, the candidates evaluated in it are the
\* combinations of the required number of producers and of animals of the bin,
\* each evaluated exactly once and with relationship lists cut to its members;
\* the bin's solutions are the candidates validate_solution accepted, and each
\* has the required counts of species of the searched ecosystem.
C19_EveryCombinationOnce ==
    BinSearched =>
        LET bin_id == search.ranked_bins[search.b]
            ids == [k \in DOMAIN search.evaluated |-> Ids(search.evaluated[k])]
            kept == {k \in DOMAIN search.evaluated : search.verdicts[k]}
        IN  /\ Range(ids) = RequiredCombinations(search.ecosystem, bin_id)
            /\ \A j, k \in DOMAIN ids : j # k => ids[j] # ids[k]
            /\ \A k \in DOMAIN search.evaluated :
                   FilteredFrom(search.ecosystem, search.evaluated[k])
            /\ Range(search.bin_solutions) = {search.evaluated[k] : k \in kept}
            /\ Len(search.bin_solutions) = Cardinality(kept)
            /\ \A k \in DOMAIN search.bin_solutions :
                   /\ RequiredCounts(search.bin_solutions[k])
                   /\ Ids(search.bin_solutions[k]) \subseteq Ids(search.ecosystem)

\* C20: a clock found past the budget after a bin ends the search there; the
\* search returns without an error the solutions accepted in the bins it
\* attempted, which are the first bins of the ranking, and so an empty list
\* when none was accepted.
C20_TimeoutReturnsFound ==
    /\ search.expired => search.pc = "returned"
    /\ search.pc = "returned" =>
           /\ search.raised = None
           /\ search.solutions = search.accepted
           /\ search.attempted = SubSeq(search.ranked_bins, 1, search.b)
           /\ ~search.expired => search.b = Len(search.ranked_bins)

\* the clock ran out after a first bin that yielded a solution, and a bin with
\* candidates was left unattempted
C20_Witness ==
    /\ search.pc = "returned"
    /\ search.expired
    /\ search.b = 1
    /\ search.solutions # <<>>
    /\ \E k \in 2..Len(search.ranked_bins) :
           Len(bin_animals(search.ecosystem, search.ranked_bins[k])) >= TOTAL_ANIMALS_NEEDED

Count(seq, x) == Cardinality({k \in DOMAIN seq : seq[k] = x})

\* the input solutions whose simulation succeeded, each with the score of its event log
SucceededWithScore ==
    LET kept == SelectSeq([k \in DOMAIN rank.outcomes |-> k],
                          LAMBDA k : rank.outcomes[k].success)
    IN  [j \in DOMAIN kept |->
            [solution |-> rank.solutions[kept[j]],
             score |-> get_solution_score(rank.solutions[kept[j]],
                                          rank.outcomes[kept[j]].feeding_history)]]

\* C21: rank_solutions returns the input solutions whose simulation succeeded,
\* each as often as it was given and paired with its score, and no other entry;
\* every entry's score is at least the score of the entry after it.
C21_RankedSucceededByScore ==
    rank.pc = "returned" =>
        /\ Len(rank.outcomes) = Len(rank.solutions)
        /\ Len(rank.ranked_solutions) = Len(SucceededWithScore)
        /\ \A k \in DOMAIN rank.ranked_solutions :
               Count(rank.ranked_solutions, rank.ranked_solutions[k])
                   = Count(SucceededWithScore, rank.ranked_solutions[k])
        /\ \A k \in 1..(Len(rank.ranked_solutions) - 1) :
               AtLeast(rank.ranked_solutions[k].score, rank.ranked_solutions[k + 1].score)

\* three solutions were given: the first failed, and the third scored strictly
\* higher than the second and is returned before it
C21_Witness ==
    /\ rank.pc = "returned"
    /\ Len(rank.solutions) = 3
    /\ ~rank.outcomes[1].success
    /\ Len(rank.ranked_solutions) = 2
    /\ rank.ranked_solutions[1].solution = rank.solutions[3]
    /\ rank.ranked_solutions[2].solution = rank.solutions[2]
    /\ ~AtLeast(rank.ranked_solutions[2].score, rank.ranked_solutions[1].score)

\* calories consumed in the k-th scored event log, in ledger units
ConsumedIn(k) ==
    SumSeq([e \in DOMAIN scoring.results[k].feeding_history |->
                scoring.results[k].feeding_history[e].calories_consumed])

NeededBy(species) ==
    SumSeq([k \in DOMAIN species |->
                IF species[k].species_type = ANIMAL THEN species[k].calories_needed ELSE 0])

\* C22 as stated: for one solution, an event log that consumed at least as much
\* as another never has the lower caloric-efficiency component.
C22_MoreConsumedNotLess ==
    \A j, k \in DOMAIN scoring.results :
        ConsumedIn(j) <= ConsumedIn(k) =>
            AtLeast(scoring.results[k].caloric_efficiency,
                    scoring.results[j].caloric_efficiency)

\* C22: the component is needed/consumed, and 0 when nothing was consumed; so
\* for one solution, among event logs that consumed something, the log that
\* consumed at least as much never has the higher component.
C22_MoreConsumedNotMore ==
    \A j, k \in DOMAIN scoring.results :
        /\ ConsumedIn(j) = 0 => scoring.results[j].caloric_efficiency.num = 0
        /\ ConsumedIn(j) > 0 =>
               scoring.results[j].caloric_efficiency.num * ConsumedIn(j)
                   = NeededBy(scoring.solution) * Scale
                         * scoring.results[j].caloric_efficiency.den
        /\ (0 < ConsumedIn(j) /\ ConsumedIn(j) <= ConsumedIn(k)) =>
               AtLeast(scoring.results[j].caloric_efficiency,
                       scoring.results[k].caloric_efficiency)

\* animals needing 1000 in all: a log that consumed 1000 (component 1) and a
\* log that consumed 2000 (component 1/2)
C22_Witness ==
    /\ NeededBy(scoring.solution) = 1000
    /\ Len(scoring.results) = 2
    /\ ConsumedIn(1) = 1000 * Scale
    /\ ConsumedIn(2) = 2000 * Scale
    /\ scoring.results[1].caloric_efficiency = [num |-> 1, den |-> 1]
    /\ scoring.results[2].caloric_efficiency = [num |-> 1, den |-> 2]

\* the ledger FeedingSimulation.__init__ builds for a candidate
InitialLedger(species) ==
    [id \in Ids(species) |-> species_dict(species, id).calories_provided * Scale]

Uneaten(self) ==
    {i \in DOMAIN solution :
        solution[i].species_type = ANIMAL /\ solution[i].id \notin self.has_eaten}

\* position i holds the animal to feed next: no uneaten animal has a higher
\* ledger value, and none before it in the list has the same
IsNextPredator(self, i) ==
    /\ i \in Uneaten(self)
    /\ \A j \in Uneaten(self) :
           /\ self.calories_remaining[solution[j].id]
                  <= self.calories_remaining[solution[i].id]
           /\ j < i => self.calories_remaining[solution[j].id]
                           < self.calories_remaining[solution[i].id]

NewEvents(r) ==
    SubSeq(sim'[r].feeding_history, Len(sim[r].feeding_history) + 1,
           Len(sim'[r].feeding_history))

\* C24: in every pass of the loop the animal that feeds (the one added to
\* has_eaten, and the predator of every event the pass logs) is an animal that
\* had not eaten, whose ledger value was maximal among those and which is the
\* earliest such animal of the candidate list; and a simulation returns
\* success only when every animal has eaten.
C24_NextPredatorIsFirstMax ==
    [][\A r \in Runs :
           /\ (sim[r].pc = "loop" /\ sim'[r].has_eaten # sim[r].has_eaten) =>
                  \E i \in DOMAIN solution :
                      /\ IsNextPredator(sim[r], i)
                      /\ sim'[r].has_eaten = sim[r].has_eaten \cup {solution[i].id}
           /\ (sim[r].pc = "loop" /\ sim'[r].feeding_history # sim[r].feeding_history) =>
                  \E i \in DOMAIN solution :
                      /\ IsNextPredator(sim[r], i)
                      /\ \A k \in DOMAIN NewEvents(r) :
                             NewEvents(r)[k].predator = solution[i].id
           /\ (sim[r].pc = "loop" /\ sim'[r].pc = "returned" /\ sim'[r].success) =>
                  Uneaten(sim'[r]) = {}]_vars

\* A1 and then A2 have fed although A2, A3 and A4 held the same ledger value
\* when A2 was chosen, and A3 and A4 are still tied
C24_Witness ==
    /\ pc = "simulating"
    /\ sim[1].pc = "loop"
    /\ sim[1].has_eaten = {"A1", "A2"}
    /\ sim[1].calories_remaining["A2"] = sim[1].calories_remaining["A3"]
    /\ sim[1].calories_remaining["A3"] = sim[1].calories_remaining["A4"]
    /\ sim[1].calories_remaining["A1"] > sim[1].calories_remaining["A2"]

\* in run r this step is a pass of the loop in which the feed of the chosen
\* predator is rejected
FeedRejected(r) ==
    /\ sim[r].pc = "loop"
    /\ Uneaten(sim[r]) # {}
    /\ sim'[r].pc = "returned"
    /\ ~sim'[r].success
    /\ sim'[r].has_eaten = sim[r].has_eaten

\* the ledger values of the available prey of a species, added up
AvailableTotal(self, species) ==
    SumSeq([k \in DOMAIN solution |->
                IF /\ solution[k].id \in Range(species.prey)
                   /\ self.calories_remaining[solution[k].id] > 0
                THEN self.calories_remaining[solution[k].id]
                ELSE 0])

\* C25: a predator's feed fails only if its need is unmet after all its
\* available prey were considered, group after group: whenever a feed is
\* rejected, the available prey of the predator together hold no more than it
\* needs.
C25_FailsOnlyWhenAllPreyFallShort ==
    [][\A r \in Runs :
           FeedRejected(r) =>
               \E i \in DOMAIN solution :
                   /\ IsNextPredator(sim[r], i)
                   /\ AvailableTotal(sim[r], solution[i])
                          <= solution[i].calories_needed * Scale]_vars

\* positions of the available prey of the species at position i
AvailablePrey(self, i) ==
    {k \in DOMAIN solution :
        /\ solution[k].id \in Range(solution[i].prey)
        /\ self.calories_remaining[solution[k].id] > 0}

\* the highest ledger value among the available prey, and the prey holding it
TopValue(self, i) ==
    Max({self.calories_remaining[solution[k].id] : k \in AvailablePrey(self, i)})

TopGroup(self, i) ==
    {k \in AvailablePrey(self, i) : self.calories_remaining[solution[k].id] = TopValue(self, i)}

\* the draw on each prey of the top group would leave it at 0 or below
WouldDeplete(self, i) ==
    TopValue(self, i) * Cardinality(TopGroup(self, i))
        <= solution[i].calories_needed * Scale

\* C26: when the draw of the predator to feed would leave a prey at 0 or
\* below, the pass returns failure with the ledger, has_eaten and the event
\* log as they were before the predator's attempt, for a single prey and for a
\* group of tied prey alike; and every draw that is logged leaves its prey
\* above 0.
C26_DepletingDrawRejectedWhole ==
    [][\A r \in Runs : \A i \in DOMAIN solution :
           (/\ sim[r].pc = "loop"
            /\ sim'[r] # sim[r]
            /\ IsNextPredator(sim[r], i)
            /\ AvailablePrey(sim[r], i) # {}) =>
               /\ WouldDeplete(sim[r], i) =>
                      sim'[r] = [sim[r] EXCEPT !.pc = "returned", !.success = FALSE]
               /\ \A k \in DOMAIN NewEvents(r) :
                      sim'[r].calories_remaining[NewEvents(r)[k].prey] > 0]_vars

\* A1 has fed on P1 and P2, which leaves both at 500; the draw of A2, 500 from
\* each of the two, was rejected and the run returned failure with A1's two
\* events only
C26_Witness ==
    /\ pc = "simulating"
    /\ sim[1].pc = "returned"
    /\ ~sim[1].success
    /\ sim[1].has_eaten = {"A1"}
    /\ Len(sim[1].feeding_history) = 2
    /\ sim[1].calories_remaining["P1"] = 500 * Scale
    /\ sim[1].calories_remaining["P2"] = 500 * Scale
    /\ \E i \in DOMAIN solution :
           /\ solution[i].id = "A2"
           /\ solution[i].calories_needed = 1000
           /\ solution[i].prey = <<"P1", "P2">>

\* every prey and predator id of the candidate names a species of the candidate
ReferencesResolve(species) ==
    \A i \in DOMAIN species :
        Range(species[i].prey) \cup Range(species[i].predators) \subseteq Ids(species)

\* x lists y as prey exactly when y lists x as predator
BothSidesAgree(species) ==
    \A i, j \in DOMAIN species :
        species[j].id \in Range(species[i].prey)
            <=> species[i].id \in Range(species[j].predators)

\* C27: a candidate that passes the relationship-structure check of
\* validate_solution names only species of the candidate in its prey and
\* predator lists, and its relationships are listed on both sides: as prey by
\* the predator and as predator by the prey.
C27_StructureCheckBothDirections ==
    pc = "simulate" => (ReferencesResolve(solution) /\ BothSidesAgree(solution))

\* C28: in every ecosystem returned by generate_scenario the prey of an Animal
\* are Producers of its bin or Animals of its bin that provide strictly fewer
\* calories than it does; so no two Animals are prey of each other and no
\* Animal is its own prey.
C28_PreyStrictlyLower ==
    Returned_Ecosystem =>
        \A i, j \in DOMAIN Generated :
            (/\ Generated[i].species_type = ANIMAL
             /\ Generated[j].id \in Range(Generated[i].prey)) =>
                /\ Generated[j].bin = Generated[i].bin
                /\ Generated[j].species_type = ANIMAL =>
                       /\ Generated[j].calories_provided < Generated[i].calories_provided
                       /\ Generated[i].id \notin Range(Generated[j].prey)
                       /\ i # j

\* the calories the log records as drawn from prey id, in ledger units
ConsumedAsPrey(history, id) ==
    LET mine == SelectSeq(history, LAMBDA e : e.prey = id)
    IN  SumSeq([k \in DOMAIN mine |-> mine[k].calories_consumed])

\* every ledger value is calories_provided less what the log records as drawn
\* from that species, and every logged predator has eaten
LedgerMatchesLog(self) ==
    /\ \A id \in DOMAIN self.calories_remaining :
           self.calories_remaining[id]
               = InitialLedger(solution)[id] - ConsumedAsPrey(self.feeding_history, id)
    /\ \A k \in DOMAIN self.feeding_history :
           self.feeding_history[k].predator \in self.has_eaten

PreysOnItselfOrInCycle ==
    {i \in DOMAIN solution :
        /\ solution[i].species_type = ANIMAL
        /\ \/ solution[i].id \in Range(solution[i].prey)
           \/ \E j \in DOMAIN solution :
                  /\ solution[j].id \in Range(solution[i].prey)
                  /\ solution[i].id \in Range(solution[j].prey)}

\* C30: every pass of the loop of simulate_feeding_round that feeds a predator
\* either returns failure or adds exactly one Animal that had not eaten to
\* has_eaten; has_eaten holds only Animals of the candidate, so there are at
\* most as many such passes as the candidate has Animals; and every simulation
\* that is started returns, whatever the calories and the prey lists.
C30_SimulationTerminates ==
    /\ [][\A r \in Runs :
             (Feeds(r) /\ sim'[r] # sim[r]) =>
                 \/ sim'[r].pc = "returned" /\ ~sim'[r].success
                 \/ /\ sim'[r].pc = "loop"
                    /\ \E i \in Uneaten(sim[r]) :
                           sim'[r].has_eaten = sim[r].has_eaten \cup {solution[i].id}]_vars
    /\ [](\A r \in Runs :
             /\ sim[r].has_eaten \subseteq
                    {solution[i].id : i \in {j \in DOMAIN solution :
                                                 solution[j].species_type = ANIMAL}}
             /\ Cardinality(sim[r].has_eaten) <= AnimalCount)
    /\ (pc = "simulating" ~> Returned)

\* a simulation has returned success on a candidate in which two Animals are
\* each other's prey, after all five Animals fed
C30_Witness ==
    /\ sim[1].pc = "returned"
    /\ sim[1].success
    /\ PreysOnItselfOrInCycle # {}
    /\ Cardinality(sim[1].has_eaten) = 5

====
